---- MODULE Spec2Model ----
(***************************************************************************)
(* Model of the logging engine of open-horizon/edge-utilities (package     *)
(* logger): initialisation, severity filter, guarded writes, and the       *)
(* size-triggered rotation driven by the background ticker.                *)
(*                                                                         *)
(* Strings are sequences of one-character strings, so that strings.Split,  *)
(* strings.ToUpper and strings.EqualFold are computed, not assumed.        *)
(* A file is the sequence of the line ids appended to it; a line is        *)
(* LineBytes bytes long.                                                   *)
(***************************************************************************)
EXTENDS Integers, Sequences, FiniteSets, TLC

\* ------------------------------------------------------------------ bounds
NumCallers == 2
MaxLines == 3
MaxInitArchives == 2
MaxRetention == 2
MaxSizeKB == 1

\* the size of one written line, in bytes
LineBytes == 512

Callers == 1..NumCallers

\* ------------------------------------------------------------------ levels
NONE == 0
STATUS == 1
FATAL == 2
ERROR == 3
WARNING == 4
INFO == 5
DEBUG == 6
TRACE == 7

Levels == NONE..TRACE

\* ----------------------------------------------------------------- strings
LowerLetters == <<"a","b","c","d","e","f","g","h","i","j","k","l","m",
                  "n","o","p","q","r","s","t","u","v","w","x","y","z">>
UpperLetters == <<"A","B","C","D","E","F","G","H","I","J","K","L","M",
                  "N","O","P","Q","R","S","T","U","V","W","X","Y","Z">>

ToUpperChar(c) ==
  IF \E i \in 1..26 : LowerLetters[i] = c
  THEN UpperLetters[CHOOSE i \in 1..26 : LowerLetters[i] = c]
  ELSE c

ToUpper(s) == [i \in 1..Len(s) |-> ToUpperChar(s[i])]

EqualFold(s, t) == ToUpper(s) = ToUpper(t)

\* position of the first separator in s, 0 when there is none
FirstIndex(s, sep) ==
  IF \E i \in 1..Len(s) : s[i] = sep
  THEN CHOOSE i \in 1..Len(s) : s[i] = sep /\ \A j \in 1..(i-1) : s[j] # sep
  ELSE 0

RECURSIVE Split(_, _)
Split(s, sep) ==
  LET k == FirstIndex(s, sep) IN
  IF k = 0 THEN <<s>>
  ELSE <<SubSeq(s, 1, k-1)>> \o Split(SubSeq(s, k+1, Len(s)), sep)

\* the names of the tokens and levels, as character sequences
StrFile == <<"f","i","l","e">>
StrStdout == <<"s","t","d","o","u","t">>
StrSyslog == <<"s","y","s","l","o","g">>
StrGlog == <<"g","l","o","g">>

logLevels ==
  { <<<<"N","O","N","E">>, NONE>>,
    <<<<"S","T","A","T","U","S">>, STATUS>>,
    <<<<"F","A","T","A","L">>, FATAL>>,
    <<<<"E","R","R","O","R">>, ERROR>>,
    <<<<"W","A","R","N","I","N","G">>, WARNING>>,
    <<<<"I","N","F","O">>, INFO>>,
    <<<<"D","E","B","U","G">>, DEBUG>>,
    <<<<"T","R","A","C","E">>, TRACE>>,
    <<<<"X","T","R","A","C","E">>, TRACE>> }

logLevelPrefix ==
  <<"NONE: ", "STATUS: ", "FATAL: ", "ERROR: ", "WARNING: ", "INFO: ", "DEBUG: ", "TRACE: ">>

logLevel2glog == <<0, 0, 0, 0, 0, 3, 5, 6>>

\* line 419 without strings.ToUpper
logLevel_CaseSensitive(stringLevel) ==
  IF \E e \in logLevels : e[1] = stringLevel
  THEN (CHOOSE e \in logLevels : e[1] = stringLevel)[2]
  ELSE INFO

logLevel(stringLevel) ==
  LET up == ToUpper(stringLevel) IN
  IF \E e \in logLevels : e[1] = up
  THEN (CHOOSE e \in logLevels : e[1] = up)[2]
  ELSE INFO

\* ------------------------------------------------------------- file model
\* a regular file: the line ids it holds, in order
NoFile == [exists |-> FALSE, data |-> <<>>]
File(d) == [exists |-> TRUE, data |-> d]

\* a .gz file: the compressed body and whether the gzip trailer was written
NoZip == [exists |-> FALSE, body |-> <<>>, trailer |-> FALSE]

\* the deflate step of gzip: each line is coded against the one before it
Deflate(s) == [i \in 1..Len(s) |-> IF i = 1 THEN s[1] ELSE s[i] - s[i-1]]

RECURSIVE Inflate(_)
Inflate(b) ==
  IF Len(b) = 0 THEN <<>>
  ELSE LET front == Inflate(SubSeq(b, 1, Len(b) - 1)) IN
       IF Len(front) = 0 THEN <<b[1]>>
       ELSE Append(front, front[Len(front)] + b[Len(b)])

\* what a reader of a .gz file gets back: the lines, or nothing when the
\* stream is missing or was never closed
Gunzip(z) == IF z.exists /\ z.trailer THEN Inflate(z.body) ELSE <<>>

IsGzip(z) == z.exists /\ z.trailer

ZipTop == (IF MaxInitArchives > MaxRetention THEN MaxInitArchives ELSE MaxRetention) + 1
ZipSlots == 0..ZipTop

FileSize(f) == Len(f.data) * LineBytes

\* ------------------------------------------------------------------- state
VARIABLES
  log,          \* the Logger struct
  lockChannel,  \* number of tokens in log.lockChannel (capacity 1)
  initResult,   \* what Init returned: "none", "ok", "error", "panic"
  parameters,   \* the Parameters value Init was called with
  glogV,        \* the verbosity the external glog facility runs with
  rootPath,     \* state of parameters.RootPath on disk
  syslogd,      \* whether the system log accepts connections
  files,        \* <file> (cur) and <file>.1 (sav)
  zips,         \* <file>.N.gz for N in ZipSlots
  handles,      \* state of the write handles opened on <file>
  callers,      \* the goroutines calling the logging methods
  tick,         \* the goroutine started by Init, running checkFiles
  nextLine,     \* id of the next line handed to the writer
  hist          \* history of the rotations

vars == <<log, lockChannel, initResult, parameters, glogV, rootPath, syslogd, files,
          zips, handles, callers, tick, nextLine, hist>>

NoWriter == [set |-> FALSE, file |-> 0, stdout |-> FALSE, syslog |-> FALSE]
Writer(f, so, sl) == [set |-> TRUE, file |-> f, stdout |-> so, syslog |-> sl]

\* the zero value of the Logger struct (log.go:7, trace.go:7)
ZeroLogger ==
  [ Logger |-> NoWriter, Level |-> 0, MaxFileSize |-> 0,
    MaxCompressedFilesNumber |-> 0, CurrentFile |-> 0, useLogger |-> FALSE,
    glog |-> FALSE, Stdout |-> FALSE, Syslog |-> FALSE, ticker |-> "nil" ]

NoParameters ==
  [ Destinations |-> <<>>, Level |-> <<>>, MaxFileSize |-> 0,
    MaxCompressedFilesNumber |-> 0 ]

\* a goroutine outside of any call: input is the kind of value given to
\* Dump, arg the text the call passes on, out what log.Logger.Printf was
\* given, answer what IsLogging returned
IdleCaller ==
  [ pc |-> "idle", level |-> 0, mw |-> 0, sinks |-> {}, bridge |-> 0,
    input |-> "", arg |-> "", out |-> <<>>, answer |-> FALSE ]

IdleTick == [ pc |-> "idle", i |-> 0, compressedFiles |-> 0, savFile |-> 0, failed |-> FALSE ]

NoHist ==
  [ archives0 |-> 0, last |-> "none", rotations |-> 0, swapContent |-> <<>>,
    swapMark |-> 0, prevMark |-> 0 ]

\* what os.Stat, os.MkdirAll and os.OpenFile find at RootPath:
\*   "dir"         a directory in which <file> can be opened
\*   "readonly"    a directory in which <file> cannot be opened
\*   "missing"     nothing, and the directory can be created
\*   "uncreatable" nothing, and the directory cannot be created
\*   "notdir"      something that is not a directory
\*   "noaccess"    Stat fails with an error other than "does not exist"
RootStates == {"dir", "readonly", "missing", "uncreatable", "notdir", "noaccess"}

\* the archives found on disk at start: n of them, numbered 1..n, the
\* higher the number the older the content
InitZips(n) ==
  [ k \in ZipSlots |->
      IF k >= 1 /\ k <= n
      THEN [exists |-> TRUE, body |-> Deflate(<<0 - k>>), trailer |-> TRUE]
      ELSE NoZip ]

Init ==
  /\ log = ZeroLogger
  /\ lockChannel = 0
  /\ initResult = "none"
  /\ parameters = NoParameters
  /\ glogV = 0
  /\ rootPath \in RootStates
  /\ syslogd \in BOOLEAN
  /\ \E n \in 0..MaxInitArchives :
       /\ rootPath # "dir" => n = 0
       /\ files = [cur |-> NoFile, sav |-> NoFile]
       /\ zips = InitZips(n)
       /\ hist = [NoHist EXCEPT !.archives0 = n]
  /\ handles = [h \in 1..2 |-> "unused"]
  /\ callers = [c \in Callers |-> IdleCaller]
  /\ tick = IdleTick
  /\ nextLine = 1

\* ------------------------------------------------------------ Logger.Init
HasToken(dests, name) == \E i \in 1..Len(dests) : EqualFold(dests[i], name)

\* lines 86-102: which destinations the list asks for
ParseDestinations(destinations) ==
  LET dests == Split(destinations, ",") IN
  IF Len(dests) = 0
  THEN [file |-> TRUE, stdout |-> FALSE, syslog |-> FALSE, glog |-> FALSE]
  ELSE [file |-> HasToken(dests, StrFile), stdout |-> HasToken(dests, StrStdout),
        syslog |-> HasToken(dests, StrSyslog), glog |-> HasToken(dests, StrGlog)]

\* line 138 without the test of the bridge
NoValidDestination_NoBridge(nwriters, glogRequested) == nwriters = 0

\* line 138: no writer was built and the bridge is not requested
NoValidDestination(nwriters, glogRequested) == nwriters = 0 /\ ~glogRequested

\* line 150
SizeInBytes(kb) == kb * 1024

\* Init called with parameters p; v is the verbosity glog was started with.
\* With a Stat error other than "does not exist", info is nil and
\* info.IsDir() at line 113 panics
LoggerInit(p, v) ==
  LET d == ParseDestinations(p.Destinations)
      statPanics == d.file /\ rootPath = "noaccess"
      dirFails == d.file /\ rootPath \in {"notdir", "uncreatable"}
      root1 == IF d.file /\ rootPath = "missing" THEN "dir" ELSE rootPath
      openFails == d.file /\ rootPath = "readonly"
      fileOpened == d.file /\ rootPath \in {"dir", "missing"}
      syslogReached == ~statPanics /\ ~dirFails /\ ~openFails
      syslogFails == syslogReached /\ d.syslog /\ ~syslogd
      nwriters == (IF d.file THEN 1 ELSE 0) + (IF d.stdout THEN 1 ELSE 0)
                    + (IF d.syslog THEN 1 ELSE 0)
      invalid == syslogReached /\ ~syslogFails /\ NoValidDestination(nwriters, d.glog)
      failed == dirFails \/ openFails \/ syslogFails \/ invalid
      log1 == IF fileOpened THEN [log EXCEPT !.CurrentFile = 1] ELSE log
      log2 == IF syslogReached /\ d.stdout THEN [log1 EXCEPT !.Stdout = TRUE] ELSE log1
      log3 == IF syslogReached /\ d.syslog /\ syslogd
              THEN [log2 EXCEPT !.Syslog = TRUE] ELSE log2
      log4 == IF nwriters > 0
              THEN [log3 EXCEPT !.Logger = Writer(log3.CurrentFile, d.stdout, d.syslog),
                                !.useLogger = TRUE,
                                !.Level = logLevel(p.Level),
                                !.MaxFileSize = SizeInBytes(p.MaxFileSize),
                                !.MaxCompressedFilesNumber = p.MaxCompressedFilesNumber,
                                !.ticker = "running"]
              ELSE log3
      log5 == IF d.glog
              THEN [log4 EXCEPT !.Level = logLevel(p.Level), !.glog = TRUE]
              ELSE log4
  IN
  /\ initResult = "none"
  /\ parameters' = p
  /\ glogV' = IF d.glog THEN v ELSE 0
  /\ IF statPanics
     THEN /\ initResult' = "panic"
          /\ UNCHANGED <<log, lockChannel, rootPath, files, handles>>
     ELSE /\ rootPath' = root1
          /\ files' = IF fileOpened /\ ~files.cur.exists
                      THEN [files EXCEPT !.cur = File(<<>>)] ELSE files
          /\ handles' = IF fileOpened THEN [handles EXCEPT ![1] = "open"] ELSE handles
          /\ IF failed
             THEN /\ initResult' = "error"
                  /\ log' = log3
                  /\ UNCHANGED lockChannel
             ELSE /\ initResult' = "ok"
                  /\ log' = log5
                  /\ lockChannel' = IF nwriters > 0 THEN 1 ELSE lockChannel
  /\ UNCHANGED <<syslogd, zips, callers, tick, nextLine, hist>>

\* ---------------------------------------------------------- lock / unLock
\* line 428 with a receive that never waits
CanLock_NoWait == TRUE

\* line 428: the receive goes through when the channel holds a token
CanLock == lockChannel > 0
AfterLock == lockChannel - 1

\* line 432: the send goes through when the channel has room (capacity 1)
CanUnLock == lockChannel < 1
AfterUnLock == lockChannel + 1

\* ------------------------------------------------------------ Logger.printf
\* line 299 with the comparison made strict
ShouldEmit_Strict(level) == log.useLogger /\ log.Level > level

\* line 299: the primary path takes the call
ShouldEmit(level) == log.useLogger /\ log.Level >= level

\* line 304: the bridge takes the call
BridgeEmits(level) == log.glog /\ glogV >= logLevel2glog[level + 1]

\* the sinks a line handed to the multiplexed writer w reaches: io.MultiWriter
\* writes to its writers in order and stops at the first one that fails, and
\* a write on a closed file fails
SinksReached(w) ==
  IF w.file # 0 /\ handles[w.file] # "open" THEN {}
  ELSE (IF w.file # 0 THEN {"file"} ELSE {})
         \cup (IF w.stdout THEN {"stdout"} ELSE {})
         \cup (IF w.syslog THEN {"syslog"} ELSE {})

InFlight ==
  Cardinality({c \in Callers : callers[c].pc \in {"lock", "write", "alock", "awrite"}})

\* a caller enters printf(level, ...): the calls are made once Init returned
PrintfEnter(c, level) ==
  /\ initResult \in {"ok", "error"}
  /\ callers[c].pc = "idle"
  /\ nextLine + InFlight <= MaxLines
  /\ IF ShouldEmit(level)
     THEN callers' = [callers EXCEPT ![c] =
            [IdleCaller EXCEPT !.pc = "lock", !.level = level, !.arg = "format"]]
     ELSE callers' = [callers EXCEPT ![c] =
            [IdleCaller EXCEPT !.pc = "done", !.level = level, !.arg = "format",
                               !.bridge = IF BridgeEmits(level) THEN 1 ELSE 0]]
  /\ UNCHANGED <<log, lockChannel, initResult, parameters, glogV, rootPath, syslogd,
                 files, zips, handles, tick, nextLine, hist>>

\* line 300
PrintfLock(c) ==
  /\ callers[c].pc = "lock"
  /\ CanLock
  /\ lockChannel' = AfterLock
  /\ callers' = [callers EXCEPT ![c].pc = "write"]
  /\ UNCHANGED <<log, initResult, parameters, glogV, rootPath, syslogd, files, zips,
                 handles, tick, nextLine, hist>>

\* line 301: one line goes to the writer the Logger holds at this moment
PrintfWrite(c) ==
  LET reached == SinksReached(log.Logger) IN
  /\ callers[c].pc = "write"
  /\ callers' = [callers EXCEPT ![c].pc = "unlock",
                                ![c].mw = @ + 1,
                                ![c].sinks = reached,
                                ![c].out = <<logLevelPrefix[callers[c].level + 1],
                                             callers[c].arg>>]
  /\ files' = IF "file" \in reached
              THEN [files EXCEPT !.cur.data = Append(@, nextLine)]
              ELSE files
  /\ nextLine' = nextLine + 1
  /\ UNCHANGED <<log, lockChannel, initResult, parameters, glogV, rootPath, syslogd,
                 zips, handles, tick, hist>>

\* lines 302-319: release the guard, then the bridge part of the call
PrintfUnlock(c) ==
  /\ callers[c].pc = "unlock"
  /\ CanUnLock
  /\ lockChannel' = AfterUnLock
  /\ callers' = [callers EXCEPT ![c].pc = "done",
                                ![c].bridge = IF BridgeEmits(callers[c].level)
                                              THEN 1 ELSE 0]
  /\ UNCHANGED <<log, initResult, parameters, glogV, rootPath, syslogd, files, zips,
                 handles, tick, nextLine, hist>>

\* printf returns to its caller
PrintfReturn(c) ==
  /\ callers[c].pc = "done"
  /\ callers' = [callers EXCEPT ![c] = IdleCaller]
  /\ UNCHANGED <<log, lockChannel, initResult, parameters, glogV, rootPath, syslogd,
                 files, zips, handles, tick, nextLine, hist>>

\* ------------------------------- Logger.printfAlways, Dump and StackTrace
\* the kinds of value Dump is given: a struct whose fields can all be read,
\* a struct with an unexported field that is itself a struct, a value that
\* is not a struct, and the nil interface value
DumpInputs == {"struct", "struct-unexported", "scalar", "nil"}

\* line 323: printfAlways is entered with the text; without the primary
\* path only the bridge part (lines 328-334) runs
AlwaysEntered(text, a) ==
  [IdleCaller EXCEPT !.pc = IF log.useLogger THEN "alock" ELSE "adone",
                     !.input = a, !.arg = text,
                     !.bridge = IF ~log.useLogger /\ log.glog THEN 1 ELSE 0]

\* the goroutine panics; it makes no further step (the process ends unless
\* the caller recovers)
Panicked(a) == [IdleCaller EXCEPT !.pc = "panic", !.input = a]

\* lines 359-372: reflect.TypeOf(nil) is nil and objectType.Kind() at line
\* 361 panics on it; a value that is not a struct gets the diagnostic;
\* dumpHelper calls value.Interface() at line 389 on a field that is a
\* struct, which panics when the field is unexported
Dump(c, a) ==
  /\ initResult \in {"ok", "error"}
  /\ callers[c].pc = "idle"
  /\ nextLine + InFlight <= MaxLines
  /\ callers' = [callers EXCEPT ![c] =
       IF a = "nil" THEN Panicked(a)
       ELSE IF a = "scalar" THEN AlwaysEntered("diagnostic", a)
       ELSE IF a = "struct-unexported" THEN Panicked(a)
       ELSE AlwaysEntered("dump", a)]
  /\ UNCHANGED <<log, lockChannel, initResult, parameters, glogV, rootPath, syslogd,
                 files, zips, handles, tick, nextLine, hist>>

\* lines 398-416
StackTrace(c) ==
  /\ initResult \in {"ok", "error"}
  /\ callers[c].pc = "idle"
  /\ nextLine + InFlight <= MaxLines
  /\ callers' = [callers EXCEPT ![c] = AlwaysEntered("stack", "")]
  /\ UNCHANGED <<log, lockChannel, initResult, parameters, glogV, rootPath, syslogd,
                 files, zips, handles, tick, nextLine, hist>>

\* line 324
AlwaysLock(c) ==
  /\ callers[c].pc = "alock"
  /\ CanLock
  /\ lockChannel' = AfterLock
  /\ callers' = [callers EXCEPT ![c].pc = "awrite"]
  /\ UNCHANGED <<log, initResult, parameters, glogV, rootPath, syslogd, files, zips,
                 handles, tick, nextLine, hist>>

\* line 325: the text goes to the writer as it is
AlwaysWrite(c) ==
  LET reached == SinksReached(log.Logger) IN
  /\ callers[c].pc = "awrite"
  /\ callers' = [callers EXCEPT ![c].pc = "aunlock",
                                ![c].mw = @ + 1,
                                ![c].sinks = reached,
                                ![c].out = <<callers[c].arg>>]
  /\ files' = IF "file" \in reached
              THEN [files EXCEPT !.cur.data = Append(@, nextLine)]
              ELSE files
  /\ nextLine' = nextLine + 1
  /\ UNCHANGED <<log, lockChannel, initResult, parameters, glogV, rootPath, syslogd,
                 zips, handles, tick, hist>>

\* lines 326-334: release the guard, then the bridge part
AlwaysUnlock(c) ==
  /\ callers[c].pc = "aunlock"
  /\ CanUnLock
  /\ lockChannel' = AfterUnLock
  /\ callers' = [callers EXCEPT ![c].pc = "adone",
                                ![c].bridge = IF log.glog THEN 1 ELSE 0]
  /\ UNCHANGED <<log, initResult, parameters, glogV, rootPath, syslogd, files, zips,
                 handles, tick, nextLine, hist>>

\* printfAlways returns, and Dump or StackTrace with it
AlwaysReturn(c) ==
  /\ callers[c].pc = "adone"
  /\ callers' = [callers EXCEPT ![c] = IdleCaller]
  /\ UNCHANGED <<log, lockChannel, initResult, parameters, glogV, rootPath, syslogd,
                 files, zips, handles, tick, nextLine, hist>>

\* --------------------------------------------------------- Logger.IsLogging
\* line 295: glog.V(l) is true when the verbosity glog runs with is at least l
IsLogging(level) ==
  log.Level >= level \/ (log.glog /\ glogV >= logLevel2glog[level + 1])

\* a caller asks IsLogging(level) once Init returned
IsLoggingCall(c, level) ==
  /\ initResult \in {"ok", "error"}
  /\ callers[c].pc = "idle"
  /\ callers' = [callers EXCEPT ![c] =
       [IdleCaller EXCEPT !.pc = "answered", !.level = level,
                          !.answer = IsLogging(level)]]
  /\ UNCHANGED <<log, lockChannel, initResult, parameters, glogV, rootPath, syslogd,
                 files, zips, handles, tick, nextLine, hist>>

\* the caller goes on with the answer
IsLoggingReturn(c) ==
  /\ callers[c].pc = "answered"
  /\ callers' = [callers EXCEPT ![c] = IdleCaller]
  /\ UNCHANGED <<log, lockChannel, initResult, parameters, glogV, rootPath, syslogd,
                 files, zips, handles, tick, nextLine, hist>>

\* -------------------------------------------------------------- Logger.Stop
\* lines 283-291: closing a nil or an already closed file only returns an
\* error, which Stop drops; ticker.Stop ends the ticks, not a running
\* checkFiles
Stop ==
  /\ initResult \in {"ok", "error"}
  /\ handles' = IF log.useLogger /\ log.CurrentFile # 0
                THEN [handles EXCEPT ![log.CurrentFile] = "closed"]
                ELSE handles
  /\ log' = IF log.useLogger THEN [log EXCEPT !.ticker = "stopped"] ELSE log
  /\ UNCHANGED <<lockChannel, initResult, parameters, glogV, rootPath, syslogd, files,
                 zips, callers, tick, nextLine, hist>>

\* -------------------------------------------------------- Logger.checkFiles
\* lines 175-185: probe <file>.1.gz, <file>.2.gz, ... up to the first one
\* that is missing
RECURSIVE ProbeZips(_)
ProbeZips(i) ==
  IF i > ZipTop \/ ~zips[i].exists THEN i - 1 ELSE ProbeZips(i + 1)

getOldestZipFileNumber == IF log.CurrentFile = 0 THEN 0 ELSE ProbeZips(1)

\* line 197 with the comparison made loose
ExceedsMax_OrEqual(size) == size >= log.MaxFileSize

\* line 197
ExceedsMax(size) == size > log.MaxFileSize

\* line 200
MustPrune(compressedFiles) == compressedFiles >= log.MaxCompressedFilesNumber

\* line 201: the loop goes on while i is above this index
PruneFloor == log.MaxCompressedFilesNumber - 1

\* line 211: <file>.i.gz is renamed to this index
ShiftTarget(i) == i + 1

\* line 220 with the new archive numbered after the ones counted
NewZipIndex_Last == tick.compressedFiles + 1

\* line 220: the index of the archive the retired file is compressed into
NewZipIndex == 1

\* the handle os.OpenFile returns: one no field of the engine refers to
NewHandle == IF log.CurrentFile = 1 THEN 2 ELSE 1

\* checkFiles returns; how is what the rotation it ran came to
TickReturn(how) == IdleTick
HistReturn(how) ==
  IF how = "complete"
  THEN [hist EXCEPT !.last = IF tick.failed THEN "degraded" ELSE "complete",
                    !.rotations = IF tick.failed THEN @ ELSE @ + 1]
  ELSE [hist EXCEPT !.last = how]

\* lines 158-161: the ticker fires and the goroutine calls checkFiles
TickFire ==
  /\ initResult = "ok"
  /\ log.ticker = "running"
  /\ tick.pc = "idle"
  /\ tick' = [IdleTick EXCEPT !.pc = "check"]
  /\ UNCHANGED <<log, lockChannel, initResult, parameters, glogV, rootPath, syslogd,
                 files, zips, handles, callers, nextLine, hist>>

\* lines 188-197: no file, or Stat fails (it does on a closed file), or the
\* size is within the limit: return; otherwise the rotation starts
TickCheck ==
  /\ tick.pc = "check"
  /\ IF log.CurrentFile = 0 \/ handles[log.CurrentFile] # "open"
     THEN tick' = TickReturn("skipped") /\ hist' = hist
     ELSE IF ExceedsMax(FileSize(files.cur))
          THEN tick' = [tick EXCEPT !.pc = "count"] /\ hist' = [hist EXCEPT !.last = "running"]
          ELSE tick' = TickReturn("skipped") /\ hist' = hist
  /\ UNCHANGED <<log, lockChannel, initResult, parameters, glogV, rootPath, syslogd,
                 files, zips, handles, callers, nextLine>>

\* lines 198-200
TickCount ==
  LET n == getOldestZipFileNumber IN
  /\ tick.pc = "count"
  /\ tick' = [tick EXCEPT !.pc = IF MustPrune(n) THEN "prune" ELSE "shift",
                          !.compressedFiles = n, !.i = n]
  /\ UNCHANGED <<log, lockChannel, initResult, parameters, glogV, rootPath, syslogd,
                 files, zips, handles, callers, nextLine, hist>>

\* lines 201-207: one turn of the loop; a failed Remove is only reported
TickPrune(ok) ==
  /\ tick.pc = "prune"
  /\ IF tick.i > PruneFloor
     THEN /\ zips' = IF zips[tick.i].exists /\ ok
                     THEN [zips EXCEPT ![tick.i] = NoZip] ELSE zips
          /\ tick' = [tick EXCEPT !.i = @ - 1, !.compressedFiles = @ - 1,
                                  !.failed = @ \/ ~ok]
     ELSE /\ zips' = zips
          /\ tick' = [tick EXCEPT !.pc = "shift", !.i = tick.compressedFiles]
  /\ UNCHANGED <<log, lockChannel, initResult, parameters, glogV, rootPath, syslogd,
                 files, handles, callers, nextLine, hist>>

\* lines 209-220: one turn of the loop; the result of Rename is dropped.
\* A rename replaces the file found at the target
TickShift(ok) ==
  /\ tick.pc = "shift"
  /\ IF tick.i > 0
     THEN /\ zips' = IF zips[tick.i].exists /\ ok
                     THEN [zips EXCEPT ![ShiftTarget(tick.i)] = zips[tick.i],
                                       ![tick.i] = NoZip]
                     ELSE zips
          /\ tick' = [tick EXCEPT !.i = @ - 1, !.failed = @ \/ ~ok]
     ELSE /\ zips' = zips
          /\ tick' = [tick EXCEPT !.pc = "lock", !.savFile = log.CurrentFile]
  /\ UNCHANGED <<log, lockChannel, initResult, parameters, glogV, rootPath, syslogd,
                 files, handles, callers, nextLine, hist>>

\* line 222
TickLock ==
  /\ tick.pc = "lock"
  /\ CanLock
  /\ lockChannel' = AfterLock
  /\ tick' = [tick EXCEPT !.pc = "close"]
  /\ UNCHANGED <<log, initResult, parameters, glogV, rootPath, syslogd, files, zips,
                 handles, callers, nextLine, hist>>

\* lines 223-226: Close fails on a file already closed; after Close the
\* handle is closed whatever it returned. On failure checkFiles returns
TickClose(ok) ==
  LET closed == handles[tick.savFile] = "open" /\ ok IN
  /\ tick.pc = "close"
  /\ handles' = [handles EXCEPT ![tick.savFile] = "closed"]
  /\ IF closed
     THEN tick' = [tick EXCEPT !.pc = "rename"] /\ hist' = hist
     ELSE tick' = TickReturn("aborted") /\ hist' = HistReturn("aborted")
  /\ UNCHANGED <<log, lockChannel, initResult, parameters, glogV, rootPath, syslogd,
                 files, zips, callers, nextLine>>

\* lines 227-229: <file> becomes <file>.1; a failure is only reported
TickRename(ok) ==
  LET renamed == files.cur.exists /\ ok IN
  /\ tick.pc = "rename"
  /\ files' = IF renamed THEN [cur |-> NoFile, sav |-> files.cur] ELSE files
  /\ hist' = IF renamed
             THEN [hist EXCEPT !.swapContent = files.cur.data,
                               !.swapMark = nextLine - 1,
                               !.prevMark = hist.swapMark]
             ELSE hist
  /\ tick' = [tick EXCEPT !.pc = "reopen", !.failed = @ \/ ~renamed]
  /\ UNCHANGED <<log, lockChannel, initResult, parameters, glogV, rootPath, syslogd,
                 zips, handles, callers, nextLine>>

\* lines 231-236: OpenFile creates <file> when it is missing; on failure
\* CurrentFile is nil, the guard is released and checkFiles returns
TickReopen(ok) ==
  /\ tick.pc = "reopen"
  /\ IF ok
     THEN /\ handles' = [handles EXCEPT ![NewHandle] = "open"]
          /\ files' = IF files.cur.exists THEN files
                      ELSE [files EXCEPT !.cur = File(<<>>)]
          /\ log' = [log EXCEPT !.CurrentFile = NewHandle]
          /\ tick' = [tick EXCEPT !.pc = "setout"]
          /\ UNCHANGED <<lockChannel, hist>>
     ELSE /\ CanUnLock
          /\ lockChannel' = AfterUnLock
          /\ log' = [log EXCEPT !.CurrentFile = 0]
          /\ tick' = TickReturn("aborted")
          /\ hist' = HistReturn("aborted")
          /\ UNCHANGED <<handles, files>>
  /\ UNCHANGED <<initResult, parameters, glogV, rootPath, syslogd, zips, callers, nextLine>>

\* lines 237-245
TickSetOutput ==
  /\ tick.pc = "setout"
  /\ log' = [log EXCEPT !.Logger = Writer(log.CurrentFile, log.Stdout, log.Syslog)]
  /\ tick' = [tick EXCEPT !.pc = "unlock"]
  /\ UNCHANGED <<lockChannel, initResult, parameters, glogV, rootPath, syslogd, files,
                 zips, handles, callers, nextLine, hist>>

\* line 246
TickUnlock ==
  /\ tick.pc = "unlock"
  /\ CanUnLock
  /\ lockChannel' = AfterUnLock
  /\ tick' = [tick EXCEPT !.pc = "opensav"]
  /\ UNCHANGED <<log, initResult, parameters, glogV, rootPath, syslogd, files, zips,
                 handles, callers, nextLine, hist>>

\* lines 248-252
TickOpenSav(ok) ==
  /\ tick.pc = "opensav"
  /\ IF files.sav.exists /\ ok
     THEN tick' = [tick EXCEPT !.pc = "createzip"] /\ hist' = hist
     ELSE tick' = TickReturn("aborted") /\ hist' = HistReturn("aborted")
  /\ UNCHANGED <<log, lockChannel, initResult, parameters, glogV, rootPath, syslogd,
                 files, zips, handles, callers, nextLine>>

\* lines 254-260: Create truncates <file>.1.gz
TickCreateZip(ok) ==
  /\ tick.pc = "createzip"
  /\ IF ok
     THEN /\ zips' = [zips EXCEPT ![NewZipIndex] =
                           [exists |-> TRUE, body |-> <<>>, trailer |-> FALSE]]
          /\ tick' = [tick EXCEPT !.pc = "copy"]
          /\ hist' = hist
     ELSE /\ zips' = zips
          /\ tick' = TickReturn("aborted")
          /\ hist' = HistReturn("aborted")
  /\ UNCHANGED <<log, lockChannel, initResult, parameters, glogV, rootPath, syslogd,
                 files, handles, callers, nextLine>>

\* lines 262-266 with a copy that always stops one line short
Compressed_Short(src, ok) ==
  IF Len(src) = 0 THEN Deflate(src) ELSE Deflate(SubSeq(src, 1, Len(src) - 1))

\* what io.Copy through the gzip writer leaves in the .gz file for the
\* source src: all of it, or all but the last line when a write fails
Compressed(src, ok) ==
  IF ok \/ Len(src) = 0 THEN Deflate(src) ELSE Deflate(SubSeq(src, 1, Len(src) - 1))

\* lines 262-266
TickCopy(ok) ==
  /\ tick.pc = "copy"
  /\ zips' = [zips EXCEPT ![NewZipIndex].body = Compressed(files.sav.data, ok)]
  /\ IF ok
     THEN tick' = [tick EXCEPT !.pc = "closew"] /\ hist' = hist
     ELSE tick' = TickReturn("aborted") /\ hist' = HistReturn("aborted")
  /\ UNCHANGED <<log, lockChannel, initResult, parameters, glogV, rootPath, syslogd,
                 files, handles, callers, nextLine>>

\* lines 267-270: closing the gzip writer writes the trailer
TickCloseW(ok) ==
  /\ tick.pc = "closew"
  /\ IF ok
     THEN /\ zips' = [zips EXCEPT ![NewZipIndex].trailer = TRUE]
          /\ tick' = [tick EXCEPT !.pc = "closesav"]
          /\ hist' = hist
     ELSE /\ zips' = zips
          /\ tick' = TickReturn("aborted")
          /\ hist' = HistReturn("aborted")
  /\ UNCHANGED <<log, lockChannel, initResult, parameters, glogV, rootPath, syslogd,
                 files, handles, callers, nextLine>>

\* lines 271-278: close <file>.1 and remove it
TickRemoveSav(closeOK, removeOK) ==
  /\ tick.pc = "closesav"
  /\ IF closeOK /\ removeOK /\ files.sav.exists
     THEN /\ files' = [files EXCEPT !.sav = NoFile]
          /\ hist' = HistReturn("complete")
     ELSE /\ files' = files
          /\ hist' = HistReturn("aborted")
  /\ tick' = TickReturn("returned")
  /\ UNCHANGED <<log, lockChannel, initResult, parameters, glogV, rootPath, syslogd,
                 zips, handles, callers, nextLine>>

\* ----------------------------------------------------------- the inputs
Comma == <<",">>
DestEmpty == <<>>
DestFileUpper == <<"F","I","L","E">>
DestFileStdout == StrFile \o Comma \o StrStdout
DestFileSyslog == StrFile \o Comma \o StrSyslog
DestSyslogStdout == <<"S","y","s","L","o","g">> \o Comma \o StrStdout
DestStdoutGlog == StrStdout \o Comma \o StrGlog
DestAll == StrFile \o Comma \o StrStdout \o Comma \o StrSyslog \o Comma \o StrGlog
DestBogus == <<"t","t","y">>
DestCommas == Comma \o <<" ">> \o StrFile

AllDestinations ==
  { DestEmpty, StrFile, DestFileUpper, StrStdout, StrSyslog, StrGlog,
    DestFileStdout, DestFileSyslog, DestSyslogStdout, DestStdoutGlog, DestAll,
    DestBogus, DestCommas }

NameInfo == <<"I","N","F","O">>
NameTrace == <<"T","R","A","C","E">>

AllLevelNames ==
  { e[1] : e \in logLevels }
    \cup { <<"i","n","f","o">>, <<"D","e","b","u","g">>, <<"s","t","a","t","u","s">>,
           <<"V","E","R","B","O","S","E">>, <<"W","A","R","N">>, <<>> }

GlogVerbosities == {0, 5}

CallLevels == STATUS..TRACE

Params(dests, names, sizes, retentions) ==
  [ Destinations : dests, Level : names, MaxFileSize : sizes,
    MaxCompressedFilesNumber : retentions ]

\* ------------------------------------------------- the rotating engine
\* every size limit and retention, with and without the file destination
RotParams ==
  Params({DestFileStdout, StrStdout}, {NameInfo}, 0..MaxSizeKB, 0..MaxRetention)

RotLevels == {ERROR}

\* the engine whose every written line is over the limit at the next tick,
\* keeping two archives: each step of checkFiles may fail, and Stop may be
\* called at any time
FailParams == Params({DestFileStdout}, {NameInfo}, {0}, {2})

Next ==
  \/ \E p \in FailParams : LoggerInit(p, 0)
  \/ \E c \in Callers, l \in RotLevels : PrintfEnter(c, l)
  \/ \E c \in Callers : PrintfLock(c)
  \/ \E c \in Callers : PrintfWrite(c)
  \/ \E c \in Callers : PrintfUnlock(c)
  \/ \E c \in Callers : PrintfReturn(c)
  \/ Stop
  \/ TickFire
  \/ TickCheck
  \/ TickCount
  \/ \E ok \in BOOLEAN : TickPrune(ok)
  \/ \E ok \in BOOLEAN : TickShift(ok)
  \/ TickLock
  \/ \E ok \in BOOLEAN : TickClose(ok)
  \/ \E ok \in BOOLEAN : TickRename(ok)
  \/ \E ok \in BOOLEAN : TickReopen(ok)
  \/ TickSetOutput
  \/ TickUnlock
  \/ \E ok \in BOOLEAN : TickOpenSav(ok)
  \/ \E ok \in BOOLEAN : TickCreateZip(ok)
  \/ \E ok \in BOOLEAN : TickCopy(ok)
  \/ \E ok \in BOOLEAN : TickCloseW(ok)
  \/ \E cl \in BOOLEAN, rm \in BOOLEAN : TickRemoveSav(cl, rm)

\* started on no archive or on as many as the engine retains
InitRot ==
  Init /\ rootPath \in {"dir", "missing", "readonly"} /\ syslogd
       /\ hist.archives0 \in {0, 2}

Spec == InitRot /\ [][Next]_vars

\* the same engine under fair scheduling: a goroutine that can take a step
\* takes it in the end, and a goroutine waiting on the lock channel receives
\* the token in the end if tokens keep arriving (the Go runtime serves the
\* receivers of a channel in order of arrival). The ticker need not fire.
CheckFilesStep ==
  \/ TickCheck
  \/ TickCount
  \/ \E ok \in BOOLEAN : TickPrune(ok)
  \/ \E ok \in BOOLEAN : TickShift(ok)
  \/ \E ok \in BOOLEAN : TickClose(ok)
  \/ \E ok \in BOOLEAN : TickRename(ok)
  \/ \E ok \in BOOLEAN : TickReopen(ok)
  \/ TickSetOutput
  \/ TickUnlock
  \/ \E ok \in BOOLEAN : TickOpenSav(ok)
  \/ \E ok \in BOOLEAN : TickCreateZip(ok)
  \/ \E ok \in BOOLEAN : TickCopy(ok)
  \/ \E ok \in BOOLEAN : TickCloseW(ok)
  \/ \E cl \in BOOLEAN, rm \in BOOLEAN : TickRemoveSav(cl, rm)

Fairness ==
  /\ \A c \in Callers :
       /\ SF_vars(PrintfLock(c))
       /\ WF_vars(PrintfWrite(c))
       /\ WF_vars(PrintfUnlock(c))
       /\ WF_vars(PrintfReturn(c))
  /\ SF_vars(TickLock)
  /\ WF_vars(CheckFilesStep)

SpecLive == InitRot /\ [][Next]_vars /\ Fairness

\* --------------------- the same engine on a filesystem that cooperates,
\* --------------------- and that nobody stops
NextCoop ==
  \/ \E p \in RotParams : LoggerInit(p, 0)
  \/ \E c \in Callers, l \in RotLevels : PrintfEnter(c, l)
  \/ \E c \in Callers : PrintfLock(c)
  \/ \E c \in Callers : PrintfWrite(c)
  \/ \E c \in Callers : PrintfUnlock(c)
  \/ \E c \in Callers : PrintfReturn(c)
  \/ TickFire
  \/ TickCheck
  \/ TickCount
  \/ TickPrune(TRUE)
  \/ TickShift(TRUE)
  \/ TickLock
  \/ TickClose(TRUE)
  \/ TickRename(TRUE)
  \/ TickReopen(TRUE)
  \/ TickSetOutput
  \/ TickUnlock
  \/ TickOpenSav(TRUE)
  \/ TickCreateZip(TRUE)
  \/ TickCopy(TRUE)
  \/ TickCloseW(TRUE)
  \/ TickRemoveSav(TRUE, TRUE)

InitCoop == Init /\ rootPath \in {"dir", "missing"} /\ syslogd

SpecCoop == InitCoop /\ [][NextCoop]_vars

\* ------------------ the diagnostic helpers next to the leveled calls and
\* ------------------ the rotation, on a filesystem that cooperates
NameNone == <<"N","O","N","E">>

AlwaysParams ==
  Params({DestFileStdout, DestStdoutGlog, StrGlog}, {NameNone, NameInfo}, {0}, {1})

NextAlways ==
  \/ \E p \in AlwaysParams : LoggerInit(p, 0)
  \/ \E c \in Callers, l \in RotLevels : PrintfEnter(c, l)
  \/ \E c \in Callers : PrintfLock(c)
  \/ \E c \in Callers : PrintfWrite(c)
  \/ \E c \in Callers : PrintfUnlock(c)
  \/ \E c \in Callers : PrintfReturn(c)
  \/ \E c \in Callers, a \in DumpInputs : Dump(c, a)
  \/ \E c \in Callers : StackTrace(c)
  \/ \E c \in Callers : AlwaysLock(c)
  \/ \E c \in Callers : AlwaysWrite(c)
  \/ \E c \in Callers : AlwaysUnlock(c)
  \/ \E c \in Callers : AlwaysReturn(c)
  \/ TickFire
  \/ TickCheck
  \/ TickCount
  \/ TickPrune(TRUE)
  \/ TickShift(TRUE)
  \/ TickLock
  \/ TickClose(TRUE)
  \/ TickRename(TRUE)
  \/ TickReopen(TRUE)
  \/ TickSetOutput
  \/ TickUnlock
  \/ TickOpenSav(TRUE)
  \/ TickCreateZip(TRUE)
  \/ TickCopy(TRUE)
  \/ TickCloseW(TRUE)
  \/ TickRemoveSav(TRUE, TRUE)

InitAlways == Init /\ rootPath = "dir" /\ syslogd /\ hist.archives0 \in {0, 1}

SpecAlways == InitAlways /\ [][NextAlways]_vars

\* ------------------------------- initialisation over all the inputs
InitParams ==
  Params(AllDestinations, {NameInfo}, {1}, {1})
    \cup Params({StrStdout, DestAll}, AllLevelNames, {1}, {1})

\* one goroutine makes the calls: this specification is about what Init
\* sets up and what a call then does, not about the interleavings
InitCallers == {1}

NextInit ==
  \/ \E p \in InitParams, v \in GlogVerbosities : LoggerInit(p, v)
  \/ \E c \in InitCallers, l \in CallLevels : PrintfEnter(c, l)
  \/ \E c \in InitCallers : PrintfLock(c)
  \/ \E c \in InitCallers : PrintfWrite(c)
  \/ \E c \in InitCallers : PrintfUnlock(c)
  \/ \E c \in InitCallers : PrintfReturn(c)
  \/ \E c \in InitCallers, l \in Levels : IsLoggingCall(c, l)
  \/ \E c \in InitCallers : IsLoggingReturn(c)
  \/ TickFire
  \/ TickCheck

InitFresh == Init /\ hist.archives0 = 0

SpecInit == InitFresh /\ [][NextInit]_vars

\* ================================================================ claims

\* C1: on an engine set up with at least one of the file, console and syslog
\* sinks, a leveled call at level C that has run to its end handed exactly
\* one line to the multiplexed writer when C <= L, and none when C > L,
\* L being the configured level, whatever the mix of destinations.
C1_LevelFilter ==
  \A c \in Callers :
    (log.useLogger /\ callers[c].pc = "done")
      => callers[c].mw = (IF callers[c].level <= log.Level THEN 1 ELSE 0)

\* a call at exactly the configured level was emitted on an engine without
\* the file destination
C1_Witness ==
  \E c \in Callers :
    /\ callers[c].pc = "done"
    /\ callers[c].mw = 1
    /\ callers[c].level = log.Level
    /\ log.Logger.file = 0
    /\ log.Logger.stdout

\* what a destination list asks for, read token by token
Requests(destinations, name) == HasToken(Split(destinations, ","), name)

RequestsAny(destinations) ==
  \E name \in {StrFile, StrStdout, StrSyslog, StrGlog} : Requests(destinations, name)

\* C8: Init called with the empty destination list and a usable root
\* directory behaves as with "file": it succeeds, the file destination is
\* enabled and <root>/<name>.log is open.
C8_EmptyMeansFile ==
  (initResult # "none" /\ parameters.Destinations = DestEmpty /\ rootPath = "dir")
    => /\ initResult = "ok"
       /\ log.CurrentFile # 0
       /\ handles[log.CurrentFile] = "open"
       /\ files.cur.exists

\* C9: Init succeeds exactly when every requested sink among file, stdout
\* and syslog can be set up and at least one of file, stdout, syslog and the
\* bridge is requested; a list with no recognised token is answered with an
\* error; when the file destination is not requested the root path is
\* neither inspected nor created, so its state does not count.
C9_InitOutcome ==
  [][ (initResult = "none" /\ initResult' # "none") =>
        LET dst == parameters'.Destinations
            fileOK == Requests(dst, StrFile) => rootPath \in {"dir", "missing"}
            syslogOK == Requests(dst, StrSyslog) => syslogd
        IN /\ (initResult' = "ok") <=> (fileOK /\ syslogOK /\ RequestsAny(dst))
           /\ ~RequestsAny(dst) => initResult' = "error"
           /\ ~Requests(dst, StrFile) =>
                /\ initResult' # "panic"
                /\ rootPath' = rootPath
                /\ files' = files
                /\ handles' = handles
                /\ log'.CurrentFile = 0 ]_vars

\* Init succeeded with "stdout,glog" or the like on a root path that cannot
\* be used, and left the path as it was
C9_Witness ==
  /\ initResult = "ok"
  /\ ~Requests(parameters.Destinations, StrFile)
  /\ Requests(parameters.Destinations, StrStdout)
  /\ rootPath \in {"notdir", "noaccess", "uncreatable", "missing"}
  /\ log.useLogger
  /\ ~files.cur.exists

\* C10: when Init returned an error the engine is as if Init had not been
\* called: the ticker is not started, neither the primary path nor the
\* bridge is usable, the engine holds no file handle and no handle is left
\* open, and a logging call made afterwards writes nothing.
C10_NoPartialEngine ==
  initResult = "error" =>
    /\ log.ticker = "nil"
    /\ tick.pc = "idle"
    /\ ~log.useLogger
    /\ ~log.glog
    /\ log.CurrentFile = 0
    /\ \A h \in DOMAIN handles : handles[h] # "open"
    /\ \A c \in Callers : callers[c].mw = 0 /\ callers[c].bridge = 0

\* ------------------------------------------------------ rotation claims
\* the tick holds the guard: from the acquisition to the release
SwapSection == {"close", "rename", "reopen", "setout", "unlock"}

\* the engine has an active file and was not stopped
Live == log.CurrentFile # 0 /\ log.ticker # "stopped"

Archives == {k \in ZipSlots : zips[k].exists}

Range(s) == {s[i] : i \in 1..Len(s)}

\* the lines lo+1 .. hi, in order
Run(lo, hi) == [i \in 1..(IF hi > lo THEN hi - lo ELSE 0) |-> lo + i]

Completed == tick.pc = "idle" /\ hist.last = "complete"

C3_RetentionBound ==
  Completed => Cardinality(Archives) <= log.MaxCompressedFilesNumber

\* C4: a tick goes on to rotate exactly when it finds the active file
\* larger than MaxFileSize, which is the configured kilobytes times 1024; a
\* tick that does not rotate returns and leaves the active handle, the
\* writer, the files and the archives as they were.
C4_RotateIffTooLarge ==
  [][ (tick.pc = "check" /\ tick'.pc # "check") =>
        LET observed == log.CurrentFile # 0 /\ handles[log.CurrentFile] = "open"
            tooLarge == FileSize(files.cur) > parameters.MaxFileSize * 1024
        IN /\ (tick'.pc = "count") <=> (observed /\ tooLarge)
           /\ tick'.pc # "count" =>
                /\ tick'.pc = "idle"
                /\ log' = log
                /\ files' = files
                /\ zips' = zips
                /\ handles' = handles ]_vars

\* a rotation has started on a file of three lines, with the limit at 1 KB
C4_Witness ==
  /\ tick.pc = "count"
  /\ log.MaxFileSize = 1024
  /\ FileSize(files.cur) > 1024

\* C5: once a rotation has run to its end without a failure, <file>.1.gz
\* decompresses to the lines the active file held when it was renamed, which
\* are exactly the lines written since the rename before; <file>.1 is gone;
\* the active file holds lines written after the rename only, and all of
\* them while the engine is not stopped.
C5_RoundTrip ==
  Completed =>
    /\ IsGzip(zips[1])
    /\ Gunzip(zips[1]) = hist.swapContent
    /\ hist.swapContent = Run(hist.prevMark, hist.swapMark)
    /\ ~files.sav.exists
    /\ files.cur.exists
    /\ \A x \in Range(files.cur.data) : x > hist.swapMark
    /\ log.ticker # "stopped" => files.cur.data = Run(hist.swapMark, nextLine - 1)

\* a rotation archived two lines, and a third went to the fresh file
C5_Witness ==
  /\ Completed
  /\ Len(hist.swapContent) >= 2
  /\ Len(files.cur.data) >= 1

\* one archive holds content rotated after that of the other
Newer(a, b) ==
  /\ IsGzip(a) /\ IsGzip(b)
  /\ Len(Gunzip(a)) > 0 /\ Len(Gunzip(b)) > 0
  /\ \A x \in Range(Gunzip(a)), y \in Range(Gunzip(b)) : x > y

\* C6: once a rotation has run to its end, <file>.1.gz holds the content
\* that rotation retired, and of two archives numbered i and i+1 the first
\* holds content rotated later than the second.
C6_MostRecentFirst ==
  Completed =>
    /\ zips[1].exists
    /\ Gunzip(zips[1]) = hist.swapContent
    /\ \A i \in 1..(ZipTop - 1) :
         (zips[i].exists /\ zips[i + 1].exists) => Newer(zips[i], zips[i + 1])

\* two rotations ran to their end and both generations are kept
C6_Witness ==
  /\ Completed
  /\ hist.rotations >= 2
  /\ zips[1].exists /\ zips[2].exists
  /\ Gunzip(zips[2]) = Run(0, hist.prevMark)
  /\ hist.prevMark >= 1

Min(a, b) == IF a < b THEN a ELSE b

\* C7: starting without archives, after k rotations run to their end the
\* archives are exactly those numbered 1 .. min(k, MaxCompressedFilesNumber).
C7_Contiguous ==
  (Completed /\ hist.archives0 = 0) =>
    Archives = 1..Min(hist.rotations, log.MaxCompressedFilesNumber)

\* ------------------------------------------------------- the other claims
\* C11: on an initialised engine, IsLogging(X) answers true exactly when a
\* leveled call at X made in the same state is emitted on the primary path
\* or on the bridge, whichever of the two are active.
C11_IsLoggingAgrees ==
  \A c \in Callers :
    (initResult = "ok" /\ callers[c].pc = "answered") =>
      (callers[c].answer <=>
         (ShouldEmit(callers[c].level) \/ BridgeEmits(callers[c].level)))

\* C12: once Stop has returned, no step of the background task changes the
\* engine (active handle, writer), a file, an archive or a handle, and the
\* task is not between taking and releasing the guard; also when Stop was
\* called during a rotation.
C12_StopHalts ==
  [][ (log.ticker = "stopped" /\ tick' # tick) =>
        /\ log' = log
        /\ files' = files
        /\ zips' = zips
        /\ handles' = handles
        /\ lockChannel' = lockChannel
        /\ tick.pc \notin SwapSection
        /\ tick'.pc \notin SwapSection ]_vars

\* the eight level names, the name of ordinal n at position n + 1
EightNames ==
  << <<"N","O","N","E">>, <<"S","T","A","T","U","S">>, <<"F","A","T","A","L">>,
     <<"E","R","R","O","R">>, <<"W","A","R","N","I","N","G">>, <<"I","N","F","O">>,
     <<"D","E","B","U","G">>, <<"T","R","A","C","E">> >>

NameXtrace == <<"X","T","R","A","C","E">>

\* the ordinal of a name that is one of the eight, case apart; INFO otherwise
OrdinalOfEight(name) ==
  IF \E i \in 1..8 : EightNames[i] = ToUpper(name)
  THEN (CHOOSE i \in 1..8 : EightNames[i] = ToUpper(name)) - 1
  ELSE INFO

\* C13: the level name is converted without regard to case: each of the
\* eight names gives its own ordinal 0..7 and every other name gives INFO,
\* and no level name makes Init fail.
C13_LevelNames ==
  /\ initResult = "ok" => log.Level = OrdinalOfEight(parameters.Level)
  /\ (initResult # "none" /\ parameters.Destinations = StrStdout) => initResult = "ok"

\* C13 as the code has it: the eight names give their ordinals, the ninth
\* name XTRACE gives the TRACE ordinal, every other name gives INFO, all
\* without regard to case, and no level name makes Init fail.
C13_LevelNames_Amended ==
  /\ initResult = "ok" =>
        log.Level = IF ToUpper(parameters.Level) = NameXtrace
                    THEN TRACE
                    ELSE OrdinalOfEight(parameters.Level)
  /\ (initResult # "none" /\ parameters.Destinations = StrStdout) => initResult = "ok"

\* Init ran with a name in mixed case and with a name that is not a level
C13_Witness ==
  /\ initResult = "ok"
  /\ \/ parameters.Level = <<"D","e","b","u","g">> /\ log.Level = DEBUG
     \/ parameters.Level = <<"W","A","R","N">> /\ log.Level = INFO
  /\ log.useLogger

\* the goroutines between lock() and unLock()
Inside == {c \in Callers : callers[c].pc \in {"write", "unlock", "awrite", "aunlock"}}

\* C14: the guard never holds more than one token, and every tick that took
\* the guard has put the token back when it returns, whichever way the swap
\* step ended: with the tick returned and no call inside its critical
\* section, the guard holds exactly one token.
C14_TokenRestored ==
  log.useLogger =>
    /\ lockChannel <= 1
    /\ (tick.pc = "idle" /\ Inside = {}) => lockChannel = 1

\* C15: under fair scheduling, a logging call that passed the severity
\* filter and waits for the guard gets it, writes its line and returns,
\* whatever the outcome of the ticks that run meanwhile.
C15_CallReturns ==
  \A c \in Callers : (callers[c].pc = "lock") ~> (callers[c].pc = "done")

\* C16: in the swap step a failure of close, of rename or of reopen ends the
\* tick there: the tick returns and takes none of its remaining steps. A
\* failed rename leaves the files as they were, a failed reopen leaves the
\* engine without active file.
C16_SwapFailureAborts ==
  [][ /\ (tick.pc = "close" /\ tick' # tick /\ tick'.pc # "rename")
           => tick'.pc = "idle"
      /\ (tick.pc = "rename" /\ tick' # tick /\ files' = files)
           => tick'.pc = "idle"
      /\ (tick.pc = "reopen" /\ tick' # tick /\ log'.CurrentFile = 0)
           => tick'.pc = "idle" ]_vars

\* C17: in the shift step every rename of <file>.i.gz to <file>.(i+1).gz
\* finds no archive at i+1, so the shift overwrites no archive, whatever
\* the number of archives at start and the retention, and also when a
\* deletion of the pruning step has failed.
C17_ShiftNoOverwrite ==
  [][ (tick.pc = "shift" /\ tick.i > 0 /\ tick' # tick /\ zips[tick.i].exists)
        => ~zips[ShiftTarget(tick.i)].exists ]_vars

\* the phases of checkFiles outside the swap: the size test, the count, the
\* pruning, the shift, the wait for the guard, and the compression
OutsideSwap ==
  {"check", "count", "prune", "shift", "lock",
   "opensav", "createzip", "copy", "closew", "closesav"}

\* C18: while the tick is in a phase outside the swap the background task
\* does not hold the guard: the token is in the channel, where a logging
\* call can take it, or a logging call has it.
C18_GuardOnlyInSwap ==
  (log.useLogger /\ tick.pc \in OutsideSwap) =>
    (lockChannel = 1 \/ Inside # {})

\* C19: on an engine initialised with the file destination and not
\* stopped, whenever the guard is free log.CurrentFile is an open handle on
\* <file>, the only one open, and the writer is made of that handle and of
\* the console and syslog sinks asked for at Init; also after ticks whose
\* close, rename or reopen failed.
C19_ActiveHandle ==
  ( /\ initResult = "ok"
    /\ Requests(parameters.Destinations, StrFile)
    /\ log.ticker # "stopped"
    /\ lockChannel = 1 ) =>
    /\ log.CurrentFile # 0
    /\ handles[log.CurrentFile] = "open"
    /\ {h \in DOMAIN handles : handles[h] = "open"} = {log.CurrentFile}
    /\ files.cur.exists
    /\ log.Logger = Writer(log.CurrentFile,
                           Requests(parameters.Destinations, StrStdout),
                           Requests(parameters.Destinations, StrSyslog))

\* C20: a block handed to the always path by Dump or StackTrace reaches the
\* multiplexed writer once at every configured level, NONE included, as it
\* is, without a level prefix; the write is made with the guard held, so not
\* during the swap of a rotation nor during another write; and Dump of a
\* value that is not a record ends with one diagnostic message sent that
\* way, not with a field dump.
C20_AlwaysPath ==
  \A c \in Callers :
    /\ (log.useLogger /\ callers[c].pc = "adone") =>
          /\ callers[c].mw = 1
          /\ callers[c].out = <<callers[c].arg>>
    /\ callers[c].pc \in {"awrite", "aunlock"} =>
          /\ lockChannel = 0
          /\ tick.pc \notin SwapSection
          /\ Inside = {c}
    /\ callers[c].input \in {"scalar", "nil"} =>
          /\ callers[c].pc \in {"alock", "awrite", "aunlock", "adone"}
          /\ callers[c].arg = "diagnostic"
    /\ callers[c].input = "struct" => callers[c].arg = "dump"

====
